---- MODULE Spec2Model ----
(***************************************************************************)
(* tachi-remote: the library loader (src/src/load.rs) and the HTTP        *)
(* serving plane (src/src/server.rs).                                      *)
(*                                                                         *)
(* Text is modelled as sequences of one-character strings, so that        *)
(* splitting a path, parsing an index, escaping a JSON string and          *)
(* searching a header for a substring are computed, not assumed.           *)
(* File names are sequences of byte values, compared in byte order.        *)
(***************************************************************************)
EXTENDS Integers, Sequences, FiniteSets, TLC

VARIABLES
    pc,        \* "load": load_library is scanning; "serve": the server runs
    walk,      \* the WalkDir iterator: [cur, skip, n]
    lib_buf,   \* load_library's lib_buf (the accumulating listing)
    mangas,    \* load_library's mangas (HashMap<String, MangaEntry>)
    visited,   \* history: the directories yielded so far, each with its
               \* descriptor file and what became of it
    loaded,    \* history: the works that loaded, in traversal order
    lib,       \* Shared.lib: the LibraryEntry handed to the server
    req,       \* the request being answered (NoReq when idle)
    resp,      \* the response produced for req
    calls,     \* history: the handlers and store lookups route ran for req
    io,        \* the outcome of the file operations of the request's handler
    fds,       \* history: what the handler of req did with its file handle
    srv,       \* run_server: its phase, the connections accepted and finished,
               \* and whether an interrupt signal was received
    chap       \* a chapter on disk and the page table load_chapter built for it

vars == <<pc, walk, lib_buf, mangas, visited, loaded, lib, req, resp, calls, io, fds, srv, chap>>

-----------------------------------------------------------------------------
(* Bounds of the model *)

\* the number of directories the walker yields
MaxDirs == 4
\* the number of path segments of a request
MaxSegs == 4
\* the number of connections the server accepts
MaxConns == 8
\* the number of entries of a chapter directory or archive
MaxEntries == 3

-----------------------------------------------------------------------------
(* Text helpers *)

None == [kind |-> "None"]
Some(v) == [kind |-> "Some", v |-> v]

RECURSIVE Concat(_)
Concat(ss) == IF ss = <<>> THEN <<>> ELSE Head(ss) \o Concat(Tail(ss))

\* str::contains: sub occurs in s as a contiguous substring
Contains(s, sub) ==
    \E i \in 0..(Len(s) - Len(sub)) :
        \A j \in 1..Len(sub) : s[i + j] = sub[j]

\* byte order on file names (Ord for Path / &str)
RECURSIVE BytesLess(_, _)
BytesLess(a, b) ==
    IF b = <<>> THEN FALSE
    ELSE IF a = <<>> THEN TRUE
    ELSE IF Head(a) # Head(b) THEN Head(a) < Head(b)
    ELSE BytesLess(Tail(a), Tail(b))

RECURSIVE Insert(_, _)
Insert(e, s) ==
    IF s = <<>> THEN <<e>>
    ELSE IF BytesLess(e.name, Head(s).name) THEN <<e>> \o s
    ELSE <<Head(s)>> \o Insert(e, Tail(s))

\* sort_unstable / sort_unstable_by_key on the entry name
RECURSIVE SortByName(_)
SortByName(s) == IF s = <<>> THEN <<>> ELSE Insert(Head(s), SortByName(Tail(s)))

\* a sort that leaves the entries in the order they were yielded
SortUnstable_Unsorted(s) == {s}

\* the outcomes of sort_unstable: every arrangement of s in ascending order
\* of the names (entries of equal name may come out in any order)
SortUnstable(s) ==
    {[i \in 1..Len(s) |-> s[f[i]]] :
        f \in {g \in [1..Len(s) -> 1..Len(s)] :
                  /\ \A i, j \in 1..Len(s) : i # j => g[i] # g[j]
                  /\ \A i, j \in 1..Len(s) :
                        i < j => ~BytesLess(s[g[j]].name, s[g[i]].name)}}

DigitChars == <<"0", "1", "2", "3", "4", "5", "6", "7", "8", "9">>
IsDigit(c) == \E i \in 1..10 : DigitChars[i] = c
DigitVal(c) == (CHOOSE i \in 1..10 : DigitChars[i] = c) - 1

\* itoa: the decimal digits of a natural number
RECURSIVE ToDec(_)
ToDec(n) == IF n < 10 THEN <<DigitChars[n + 1]>> ELSE ToDec(n \div 10) \o <<DigitChars[(n % 10) + 1]>>

RECURSIVE DecValue(_, _)
DecValue(s, acc) == IF s = <<>> THEN acc ELSE DecValue(Tail(s), acc * 10 + DigitVal(Head(s)))

\* <usize as FromStr>::from_str: an optional '+', then one or more digits
ParseUsize(s) ==
    LET digits == IF s # <<>> /\ Head(s) = "+" THEN Tail(s) ELSE s
    IN  IF digits # <<>> /\ \A i \in 1..Len(digits) : IsDigit(digits[i])
        THEN Some(DecValue(digits, 0))
        ELSE None

\* serde_json's string escaping, on the characters the model uses
RECURSIVE JsonEscape(_)
JsonEscape(s) ==
    IF s = <<>> THEN <<>>
    ELSE (CASE Head(s) = "\"" -> <<"\\", "\"">>
            [] Head(s) = "\\" -> <<"\\", "\\">>
            [] OTHER -> <<Head(s)>>) \o JsonEscape(Tail(s))

JsonString(s) == <<"\"">> \o JsonEscape(s) \o <<"\"">>

-----------------------------------------------------------------------------
(* Results: Ok(v) | Err(e), with the two shapes of server::Error *)

Ok(v) == [ok |-> TRUE, v |-> v]
Err(e) == [ok |-> FALSE, e |-> e]

-----------------------------------------------------------------------------
(* The library on disk.  A directory holds no descriptor, a descriptor that *)
(* cannot be opened, read or parsed, or a descriptor with these fields.     *)
(* Each chapter carries what its path resolves to on disk: a directory     *)
(* with its entries in the order read_dir yields them, or a file with an    *)
(* extension and, for a zip, its central directory in stored order.         *)

Store == "Store"
Deflate == "Deflate"
Lzma == "Lzma"

DirEntry(name, isFile) == [name |-> name, file |-> isFile]
ZipEntry(name, isFile, method, off, csize, usize) ==
    [name |-> name, file |-> isFile, method |-> method, data_offset |-> off,
     compressed_size |-> csize, uncompressed_size |-> usize]

OnDiskDir(entries) == [kind |-> "dir", entries |-> entries]
OnDiskFile(ext, entries) == [kind |-> "file", ext |-> ext, entries |-> entries]
OnDiskMissing == [kind |-> "missing"]

ChapterDesc(path, title, date, at) == [path |-> path, title |-> title, date |-> date, at |-> at]

CoverFile(p) == [kind |-> "File", path |-> p]
CoverPage(ch, pg) == [kind |-> "Page", ch |-> ch, pg |-> pg]

\* the file load_manga opens in a directory, and the name the work format
\* gives the descriptor
INFO_JSON == "info.json"
INFO_TOML == "info.toml"

\* a descriptor in TOML, in the file the loader opens
Descriptor(id, title, cover, status, chapters) ==
    [state |-> "ok", file |-> INFO_JSON, id |-> id, title |-> title, cover |-> cover, status |-> status,
     description |-> <<>>, authors |-> <<>>, artists |-> <<>>, tags |-> <<>>,
     chapters |-> chapters]

LooseChapter == ChapterDesc(<<1>>, <<"c">>, 0,
    OnDiskDir(<<DirEntry(<<2>>, TRUE), DirEntry(<<3>>, FALSE), DirEntry(<<1>>, TRUE)>>))
OnePageChapter == ChapterDesc(<<1>>, <<"c">>, 0, OnDiskDir(<<DirEntry(<<1>>, TRUE)>>))
EmptyChapter == ChapterDesc(<<2>>, <<"e">>, 0, OnDiskDir(<<>>))
ZipChapter == ChapterDesc(<<1>>, <<"z">>, 7,
    OnDiskFile("cbz", <<ZipEntry(<<2>>, TRUE, Store, 40, 5, 5),
                        ZipEntry(<<0>>, FALSE, Store, 30, 0, 0),
                        ZipEntry(<<3>>, TRUE, Lzma, 50, 4, 9),
                        ZipEntry(<<1>>, TRUE, Deflate, 60, 3, 8)>>))
RarChapter == ChapterDesc(<<3>>, <<"r">>, 0, OnDiskFile("rar", <<>>))

\* with this title the listing of the works a and b is 64 bytes long, and the
\* listing of the second work a and b 65 bytes
LongTitle == [i \in 1..18 |-> "B"]

\* id "a", cover by page with a page index past the chapter's last page
WorkA == Descriptor(Some(<<"a">>), Some(<<"A">>), Some(CoverPage(0, 2)), 0, <<LooseChapter>>)
\* id "b", an archive chapter and an empty one, cover by page on a deflated entry
WorkB == Descriptor(Some(<<"b">>), Some(LongTitle), Some(CoverPage(0, 0)), 1,
                    <<ZipChapter, EmptyChapter>>)
\* id "a" again, cover by file, no chapter
WorkA2 == Descriptor(Some(<<"a">>), Some(<<"\"">>), Some(CoverFile(<<9>>)), 0, <<>>)
\* an id with a '/' in it, no cover
WorkAB == Descriptor(Some(<<"a", "/", "b">>), Some(<<"D">>), None, 0, <<OnePageChapter>>)
\* a chapter of an unknown file type
WorkRar == Descriptor(Some(<<"r">>), Some(<<"R">>), None, 0, <<LooseChapter, RarChapter>>)
\* no id
WorkNoId == Descriptor(None, Some(<<"N">>), None, 0, <<>>)
\* id = ""
WorkEmptyId == Descriptor(Some(<<>>), Some(<<"E">>), None, 0, <<>>)
\* a descriptor that parses, in a file named info.toml
WorkToml == [Descriptor(Some(<<"t">>), Some(<<"T">>), None, 0, <<OnePageChapter>>)
                EXCEPT !.file = INFO_TOML]

\* a file named info.toml that does not parse
MalformedToml == [state |-> "malformed", file |-> INFO_TOML]

\* the descriptor file a directory holds ("none": neither)
DescFile(desc) ==
    IF desc.state = "absent" THEN "none"
    ELSE IF "file" \in DOMAIN desc THEN desc.file
    ELSE INFO_JSON

Descriptors ==
    {[state |-> "absent"], [state |-> "unopenable"], [state |-> "unreadable"],
     [state |-> "malformed"], WorkA, WorkB, WorkA2, WorkAB, WorkRar, WorkNoId,
     WorkEmptyId, WorkToml, MalformedToml}

-----------------------------------------------------------------------------
(* Pages and their loading *)

PagesNone == [kind |-> "None"]
PagesFilesystem(pages) == [kind |-> "Filesystem", pages |-> pages]
PagesZip(path, pages) == [kind |-> "Zip", path |-> path, pages |-> pages]

\* Pages::len
PagesLen(p) == IF p.kind = "None" THEN 0 ELSE Len(p.pages)

MiniZipEntry(e) ==
    [method |-> e.method, data_offset |-> e.data_offset,
     compressed_size |-> e.compressed_size, uncompressed_size |-> e.uncompressed_size]

IsFileEntry(e) == e.file

\* the page table of a directory from its regular files, sorted
PagesOfDir(path, files) ==
    Ok(PagesFilesystem([i \in 1..Len(files) |-> Append(path, files[i].name)]))

\* the page table of an archive from its file entries, sorted
PagesOfZip(path, entries) ==
    Ok(PagesZip(path, [i \in 1..Len(entries) |-> MiniZipEntry(entries[i])]))

load_pages_dir(path, at) == PagesOfDir(path, SortByName(SelectSeq(at.entries, IsFileEntry)))

load_pages_zip(path, at) == PagesOfZip(path, SortByName(SelectSeq(at.entries, IsFileEntry)))

load_pages_file(path, at) ==
    IF at.kind = "missing" THEN Err("open")
    ELSE IF at.ext \in {"zip", "cbz"} THEN load_pages_zip(path, at)
    ELSE Err("unknown file type")

\* a path is the sequence of its names below the library root
load_chapter(manga_path, ch) ==
    LET path == Append(manga_path, ch.path)
    IN  IF ch.at.kind = "dir" THEN load_pages_dir(path, ch.at) ELSE load_pages_file(path, ch.at)

-----------------------------------------------------------------------------
(* Descriptor parsing and the work's loading (load_manga) *)

\* toml::from_slice::<Manga>: id and title are required, pages is not read
ParseManga(desc) ==
    IF desc.state # "ok" \/ desc.id = None \/ desc.title = None THEN Err("parse")
    ELSE Ok([id |-> desc.id.v, title |-> desc.title.v, cover |-> desc.cover,
             status |-> desc.status, description |-> desc.description,
             authors |-> desc.authors, artists |-> desc.artists, tags |-> desc.tags,
             chapters |-> [i \in 1..Len(desc.chapters) |->
                              [path |-> desc.chapters[i].path,
                               title |-> desc.chapters[i].title,
                               date |-> desc.chapters[i].date,
                               pages |-> PagesNone]]])

\* path.push(&cover); *cover = mem::replace(path, PathBuf::new())
ResolveCoverFile(path, cover) == CoverFile(Append(path, cover.path))

\* the cover of the descriptor as the store keeps it
ResolveCover(path, cover) ==
    IF cover = None THEN None
    ELSE IF cover.v.kind = "File" THEN Some(ResolveCoverFile(path, cover.v))
    ELSE cover

\* the for loop over manga.chapters: the first chapter that fails ends it
RECURSIVE LoadChapters(_, _, _, _)
LoadChapters(path, descs, chapters, i) ==
    IF i > Len(chapters) THEN Ok(chapters)
    ELSE IF load_chapter(path, descs[i]).ok
         THEN LoadChapters(path, descs,
                           [chapters EXCEPT ![i].pages = load_chapter(path, descs[i]).v], i + 1)
         ELSE Err("chapter")

\* the chapters are loaded: the cover is resolved and the work returned
LoadedManga(path, manga, chs) ==
    IF ~chs.ok THEN Some(chs)
    ELSE Some(Ok([manga EXCEPT !.chapters = chs.v, !.cover = ResolveCover(path, manga.cover)]))

\* the descriptor is read: parse it and load its chapters
ParsedManga(path, desc, parsed) ==
    IF ~parsed.ok THEN Some(parsed)
    ELSE LoadedManga(path, parsed.v, LoadChapters(path, desc.chapters, parsed.v.chapters, 1))

\* None: no descriptor here; Some(Err): this directory is a work that failed;
\* Some(Ok(manga)): the work
load_manga(path, desc) ==
    CASE DescFile(desc) # INFO_JSON -> None
      [] desc.state = "unopenable" -> Some(Err("open"))
      [] desc.state = "unreadable" -> Some(Err("read"))
      [] OTHER -> ParsedManga(path, desc, ParseManga(desc))

-----------------------------------------------------------------------------
(* Serialization (serde_json) *)

\* LibraryEntrySer: {"id":..,"title":..}
LibraryEntrySer(manga) ==
    <<"{", "\"", "i", "d", "\"", ":">> \o JsonString(manga.id) \o <<",", "\"", "t", "i", "t", "l", "e", "\"", ":">> \o JsonString(manga.title) \o <<"}">>

\* Chapter: path skipped, date skipped when zero, pages as its length
ChapterJson(ch) ==
    <<"{", "\"", "t", "i", "t", "l", "e", "\"", ":">> \o JsonString(ch.title)
    \o (IF ch.date = 0 THEN <<>> ELSE <<",", "\"", "d", "a", "t", "e", "\"", ":">> \o ToDec(ch.date))
    \o <<",", "\"", "p", "a", "g", "e", "s", "\"", ":">> \o ToDec(PagesLen(ch.pages)) \o <<"}">>

RECURSIVE ChaptersJson(_)
ChaptersJson(chs) ==
    IF chs = <<>> THEN <<>>
    ELSE ChapterJson(Head(chs)) \o (IF Tail(chs) = <<>> THEN <<>> ELSE <<",">>) \o ChaptersJson(Tail(chs))

ListField(key, v) == IF v = <<>> THEN <<>> ELSE key \o JsonString(v)

\* Manga: id and cover skipped, status skipped when Unknown, lists when empty
MangaJson(manga) ==
    <<"{", "\"", "t", "i", "t", "l", "e", "\"", ":">> \o JsonString(manga.title)
    \o (IF manga.status = 0 THEN <<>> ELSE <<",", "\"", "s", "t", "a", "t", "u", "s", "\"", ":">> \o ToDec(manga.status))
    \o ListField(<<",", "\"", "d", "e", "s", "c", "r", "i", "p", "t", "i", "o", "n", "\"", ":">>, manga.description)
    \o ListField(<<",", "\"", "a", "u", "t", "h", "o", "r", "s", "\"", ":">>, manga.authors)
    \o ListField(<<",", "\"", "a", "r", "t", "i", "s", "t", "s", "\"", ":">>, manga.artists)
    \o ListField(<<",", "\"", "t", "a", "g", "s", "\"", ":">>, manga.tags)
    \o (IF manga.chapters = <<>> THEN <<>>
        ELSE <<",", "\"", "c", "h", "a", "p", "t", "e", "r", "s", "\"", ":", "[">> \o ChaptersJson(manga.chapters) \o <<"]">>)
    \o <<"}">>

-----------------------------------------------------------------------------
(* Pre-encoded payloads (server::JsonBytes) *)

\* raw.len() <= 64: no gzip alternative is computed
GzipMinRaw == 64

\* GzEncoder's output for raw: its bytes are identified by the text they
\* encode, its length is the encoder's
GzipBody(raw, len) == [kind |-> "gzip", of |-> raw, len |-> len]

\* the lengths the encoder may produce, relative to the raw length
GzipDeltas == {-1, 0, 1}

BodyLen(body) == IF body.kind = "gzip" THEN body.len ELSE Len(body.bytes)

\* JsonBytes::new with the threshold off by one (raw.len() < 64)
JsonBytesNew_OffByOne(raw, gzipLen) ==
    IF Len(raw) < GzipMinRaw THEN [raw |-> raw, gzip |-> None]
    ELSE [raw |-> raw,
          gzip |-> IF GzipBody(raw, gzipLen).len < Len(raw) THEN Some(GzipBody(raw, gzipLen))
                   ELSE None]

JsonBytesNew(raw, gzipLen) ==
    IF Len(raw) <= GzipMinRaw THEN [raw |-> raw, gzip |-> None]
    ELSE [raw |-> raw,
          gzip |-> IF GzipBody(raw, gzipLen).len < Len(raw) THEN Some(GzipBody(raw, gzipLen))
                   ELSE None]

\* MangaEntry { json, cover, chapters } from the serialized work
MangaEntryOf(manga, raw, gzipDelta) ==
    [json |-> JsonBytesNew(raw, Len(raw) + gzipDelta),
     cover |-> manga.cover,
     chapters |-> [i \in 1..Len(manga.chapters) |-> [pages |-> manga.chapters[i].pages]]]

\* MangaEntry::new; serOk is whether serde_json::to_vec succeeds
MangaEntryNew(manga, gzipDelta, serOk) ==
    IF ~serOk THEN Err("serialize")
    ELSE Ok(MangaEntryOf(manga, MangaJson(manga), gzipDelta))

-----------------------------------------------------------------------------
(* The directory walk (WalkDir, depth first, directories only) *)

NoDir == <<<<-1>>>>

\* the directories walk.next() may yield after cur: its first child unless
\* skip_current_dir was called, or the next sibling of cur or of an ancestor
WalkNext(w) ==
    IF w.n = 0 THEN {<<>>}
    ELSE (IF ~w.skip THEN {Append(w.cur, <<0>>)} ELSE {})
         \cup {Append(SubSeq(w.cur, 1, k - 1), <<w.cur[k][1] + 1>>) : k \in 1..Len(w.cur)}

HashMapInsert(map, key, value) ==
    [k \in (DOMAIN map) \cup {key} |-> IF k = key THEN value ELSE map[k]]

EmptyMap == [k \in {} |-> None]

NoLib == [json |-> None, mangas |-> EmptyMap]
NoReq == [method |-> "none"]
NoResp == [status |-> 0]
\* run_server has not bound its listener
\* no chapter is being looked at
NoChapter == [at |-> None, pages |-> None]
NoServer == [phase |-> "binding", accepted |-> 0, finished |-> 0, sigint |-> FALSE]

Init ==
    /\ pc = "load"
    /\ walk = [cur |-> NoDir, skip |-> FALSE, n |-> 0]
    /\ lib_buf = <<"[">>
    /\ mangas = EmptyMap
    /\ visited = <<>>
    /\ loaded = <<>>
    /\ lib = NoLib
    /\ req = NoReq
    /\ resp = NoResp
    /\ calls = <<>>
    /\ io = "ok"
    /\ fds = <<>>
    /\ srv = NoServer
    /\ chap = NoChapter

\* WorkIteration without lib_buf.truncate(lib_buf_pos)
WorkIteration_NoTruncate(buf, map, dir, manga, entry) ==
    [lib_buf |-> buf \o LibraryEntrySer(manga) \o <<",">>,
     mangas |-> IF entry.ok THEN HashMapInsert(map, manga.id, entry.v) ELSE map,
     skip |-> TRUE, outcome |-> IF entry.ok THEN "loaded" ELSE entry.e,
     loaded |-> IF entry.ok THEN <<[dir |-> dir, manga |-> manga, entry |-> entry.v]>> ELSE <<>>]

\* the rest of an iteration whose directory holds a work that parsed: the
\* listing entry is written, then the work's entry is built and inserted; a
\* failure truncates the listing to its length before the entry
WorkIteration(buf, map, dir, manga, entry) ==
    IF entry.ok
    THEN [lib_buf |-> buf \o LibraryEntrySer(manga) \o <<",">>,
          mangas |-> HashMapInsert(map, manga.id, entry.v),
          skip |-> TRUE, outcome |-> "loaded",
          loaded |-> <<[dir |-> dir, manga |-> manga, entry |-> entry.v]>>]
    ELSE [lib_buf |-> SubSeq(buf \o LibraryEntrySer(manga) \o <<",">>, 1, Len(buf)),
          mangas |-> map,
          skip |-> TRUE, outcome |-> entry.e,
          loaded |-> <<>>]

\* the rest of an iteration, given what load_manga found
FoundIteration(buf, map, dir, found, gzipDelta, serOk) ==
    IF found = None
    THEN [lib_buf |-> buf, mangas |-> map, skip |-> FALSE, outcome |-> "none", loaded |-> <<>>]
    ELSE IF ~found.v.ok
    THEN [lib_buf |-> SubSeq(buf, 1, Len(buf)), mangas |-> map,
          skip |-> TRUE, outcome |-> found.v.e, loaded |-> <<>>]
    ELSE WorkIteration(buf, map, dir, found.v.v, MangaEntryNew(found.v.v, gzipDelta, serOk))

\* one iteration of load_library's while loop on the directory dir, whose
\* descriptor is desc: the buffers after it, whether skip_current_dir was
\* called, and what became of the directory
LoadIteration(buf, map, dir, desc, gzipDelta, serOk) ==
    FoundIteration(buf, map, dir, load_manga(dir, desc), gzipDelta, serOk)

\* lib_buf.into(): the listing as a payload
ListingPayload(raw, map, gzipDelta) ==
    [json |-> JsonBytesNew(raw, Len(raw) + gzipDelta), mangas |-> map]

\* an end of load_library that closes the listing without popping the comma
FinishLibrary_KeepComma(buf, map, gzipDelta) ==
    ListingPayload(buf \o <<"]">>, map, gzipDelta)

\* the end of load_library: a trailing comma is popped, the listing closed
FinishLibrary(buf, map, gzipDelta) ==
    ListingPayload((IF buf[Len(buf)] = "," THEN SubSeq(buf, 1, Len(buf) - 1) ELSE buf) \o <<"]">>,
                   map, gzipDelta)

LoadDir ==
    /\ pc = "load"
    /\ walk.n < MaxDirs
    /\ \E dir \in WalkNext(walk), desc \in Descriptors, gzipDelta \in GzipDeltas, serOk \in BOOLEAN :
        \E it \in {LoadIteration(lib_buf, mangas, dir, desc, gzipDelta, serOk)} :
            /\ walk' = [cur |-> dir, skip |-> it.skip, n |-> walk.n + 1]
            /\ visited' = Append(visited, [dir |-> dir, outcome |-> it.outcome,
                                            file |-> DescFile(desc)])
            /\ lib_buf' = it.lib_buf
            /\ mangas' = it.mangas
            /\ loaded' = loaded \o it.loaded
    /\ UNCHANGED <<pc, lib, req, resp, calls, io, fds, srv, chap>>

\* an iteration whose entry is a walk error (entry? fails)
LoadWalkError ==
    /\ pc = "load"
    /\ 0 < walk.n /\ walk.n < MaxDirs
    /\ walk' = [walk EXCEPT !.n = walk.n + 1]
    /\ visited' = Append(visited, [dir |-> NoDir, outcome |-> "walk", file |-> "none"])
    /\ lib_buf' = SubSeq(lib_buf, 1, Len(lib_buf))
    /\ UNCHANGED <<pc, mangas, loaded, lib, req, resp, calls, io, fds, srv, chap>>

\* walk.next() is None: the library is handed to the server, the locals go
LoadFinish ==
    /\ pc = "load"
    /\ walk.n > 0
    /\ \E gzipDelta \in GzipDeltas : lib' = FinishLibrary(lib_buf, mangas, gzipDelta)
    /\ pc' = "serve"
    /\ lib_buf' = <<>>
    /\ mangas' = EmptyMap
    /\ visited' = <<>>
    /\ walk' = [cur |-> NoDir, skip |-> FALSE, n |-> 0]
    /\ UNCHANGED <<loaded, req, resp, calls, io, fds, srv, chap>>

\* the loader's locals after the iteration it on the directory d
AfterIteration(st, d, it) ==
    [walk |-> [cur |-> d.dir, skip |-> it.skip, n |-> st.walk.n + 1],
     lib_buf |-> it.lib_buf, mangas |-> it.mangas,
     loaded |-> st.loaded \o it.loaded,
     legal |-> st.legal /\ d.dir \in WalkNext(st.walk)]

\* the while loop over a library given as the directories the walker yields,
\* in order, each with its descriptor
RECURSIVE LoadAll(_, _, _)
LoadAll(layout, st, gzipDelta) ==
    IF layout = <<>> THEN st
    ELSE LoadAll(Tail(layout),
                 AfterIteration(st, Head(layout),
                                LoadIteration(st.lib_buf, st.mangas, Head(layout).dir,
                                              Head(layout).desc, gzipDelta, TRUE)),
                 gzipDelta)

Finished(st, gzipDelta) ==
    [lib |-> FinishLibrary(st.lib_buf, st.mangas, gzipDelta),
     loaded |-> st.loaded, legal |-> st.legal]

\* load_library run to its end
load_library(layout, gzipDelta) ==
    Finished(LoadAll(layout,
                     [walk |-> [cur |-> NoDir, skip |-> FALSE, n |-> 0],
                      lib_buf |-> <<"[">>, mangas |-> EmptyMap, loaded |-> <<>>,
                      legal |-> TRUE],
                     gzipDelta),
             gzipDelta)

-----------------------------------------------------------------------------
(* Responses and errors (server::Error) *)

NOT_FOUND == [kind |-> "StatusCode", code |-> 404]
NOT_ACCEPTABLE == [kind |-> "StatusCode", code |-> 406]
METHOD_NOT_ALLOWED == [kind |-> "StatusCode", code |-> 405]
Other == [kind |-> "Other", code |-> 0]

EmptyBody == [kind |-> "empty", bytes |-> <<>>]
JsonBody(raw) == [kind |-> "json", bytes |-> raw]
\* the bytes of a file on disk
FileBody(path) == [kind |-> "file", path |-> path]
\* a read bounded by the entry's uncompressed size
ZipBody_Unclamped(path, page, inflated) ==
    [kind |-> "zip", path |-> path, offset |-> page.data_offset,
     len |-> page.uncompressed_size, inflated |-> inflated]

\* the bytes of an archive from data_offset on, at most compressed_size of
\* them, as stored or run through the deflate decoder
ZipBody(path, page, inflated) ==
    [kind |-> "zip", path |-> path, offset |-> page.data_offset,
     len |-> page.compressed_size, inflated |-> inflated]

\* Response::new(body): 200, no header
ResponseNew(body) ==
    [status |-> 200, body |-> body, content_type |-> None, content_encoding |-> None]

\* Error::into_response
ErrorIntoResponse(e) ==
    [ResponseNew(EmptyBody) EXCEPT !.status = IF e.kind = "StatusCode" THEN e.code ELSE 500]

\* with_context wrapping every error, status codes included, as Other
ErrorWithContext_AlwaysOther(e) == Other

\* Error::with_context: only the Other variant takes the context
ErrorWithContext(e) == IF e.kind = "Other" THEN Other ELSE e

-----------------------------------------------------------------------------
(* Request headers.  A header value is a sequence of bytes; NonAscii stands *)
(* for a byte HeaderValue::to_str rejects.                                   *)

NonAscii == "0xFF"

\* HeaderValue::to_str
ToStr(v) == IF \E i \in 1..Len(v) : v[i] = NonAscii THEN Err(NOT_ACCEPTABLE) ELSE Ok(v)

GZIP == <<"g", "z", "i", "p">>
DEFLATE == <<"d", "e", "f", "l", "a", "t", "e">>
IDENTITY == <<"i", "d", "e", "n", "t", "i", "t", "y">>

\* into_response looking for "gzip" in the header's bytes before decoding it
JsonBytesIntoResponse_GzipFirst(json, accept_encoding) ==
    LET Json(v, enc) == [ResponseNew(v) EXCEPT !.content_type = Some("application/json"),
                                               !.content_encoding = enc]
    IN  IF accept_encoding = None THEN Ok(Json(JsonBody(json.raw), None))
        ELSE IF json.gzip # None /\ Contains(accept_encoding.v, GZIP)
             THEN Ok(Json(json.gzip.v, Some("gzip")))
             ELSE IF ~ToStr(accept_encoding.v).ok THEN ToStr(accept_encoding.v)
                  ELSE Ok(Json(JsonBody(json.raw), None))

\* JsonBytes::into_response
JsonBytesIntoResponse(json, accept_encoding) ==
    LET Json(v, enc) == [ResponseNew(v) EXCEPT !.content_type = Some("application/json"),
                                               !.content_encoding = enc]
    IN  IF accept_encoding = None THEN Ok(Json(JsonBody(json.raw), None))
        ELSE LET str == ToStr(accept_encoding.v)
             IN  IF ~str.ok THEN str
                 ELSE IF json.gzip # None /\ Contains(str.v, GZIP)
                      THEN Ok(Json(json.gzip.v, Some("gzip")))
                      ELSE Ok(Json(JsonBody(json.raw), None))

-----------------------------------------------------------------------------
(* Handlers.  fsio is what the file system does to the handler: "ok", "open" *)
(* (the file cannot be opened), "seek" (File::seek fails), "read" (the read  *)
(* of fs::read, read_to_end or the decoder fails).                           *)

FsOutcomes == {"ok", "open", "seek", "read"}

\* the Deflate arm: the header is decoded, then the entry is passed through
\* or inflated
DeflatePage(accept_encoding, path, page, fsio) ==
    LET str == IF accept_encoding = None THEN Ok(<<>>) ELSE ToStr(accept_encoding.v)
    IN  IF ~str.ok THEN str
        ELSE IF fsio = "read" THEN Err(Other)
        ELSE IF accept_encoding # None /\ Contains(str.v, DEFLATE)
        THEN Ok([ResponseNew(ZipBody(path, page, FALSE))
                    EXCEPT !.content_encoding = Some("deflate")])
        ELSE Ok(ResponseNew(ZipBody(path, page, TRUE)))

\* the Pages::Zip arm once the page is found: open, seek, take, then the
\* entry's method decides
ZipPage(accept_encoding, path, page, fsio) ==
    IF fsio \in {"open", "seek"} THEN Err(Other)
    ELSE CASE page.method = Store ->
                IF fsio = "read" THEN Err(Other)
                ELSE Ok(ResponseNew(ZipBody(path, page, FALSE)))
           [] page.method = Deflate -> DeflatePage(accept_encoding, path, page, fsio)
           [] OTHER -> Err(Other)

\* a Filesystem arm that reads without looking the page up: a page that is
\* not there is a failed read
FilesystemPage_Unchecked(pages, pg, fsio) ==
    IF pg >= Len(pages.pages) \/ fsio \in {"open", "read"} THEN Err(Other)
    ELSE Ok(ResponseNew(FileBody(pages.pages[pg + 1])))

\* the Pages::Filesystem arm
FilesystemPage(pages, pg, fsio) ==
    IF pg >= Len(pages.pages) THEN Err(NOT_FOUND)
    ELSE IF fsio \in {"open", "read"} THEN Err(Other)
    ELSE Ok(ResponseNew(FileBody(pages.pages[pg + 1])))

PageOf(accept_encoding, pages, pg, fsio) ==
    CASE pages.kind = "None" -> Err(NOT_FOUND)
      [] pages.kind = "Filesystem" -> FilesystemPage(pages, pg, fsio)
      [] pages.kind = "Zip" ->
            IF pg >= Len(pages.pages) THEN Err(NOT_FOUND)
            ELSE ZipPage(accept_encoding, pages.path, pages.pages[pg + 1], fsio)

serve_page(accept_encoding, manga, ch, pg, fsio) ==
    IF ch >= Len(manga.chapters) THEN Err(NOT_FOUND)
    ELSE PageOf(accept_encoding, manga.chapters[ch + 1].pages, pg, fsio)

\* .map_err(|e| e.with_context(..))
MapErr(r) == IF r.ok THEN r ELSE Err(ErrorWithContext(r.e))

serve_cover(accept_encoding, manga, fsio) ==
    IF manga.cover = None THEN Err(NOT_FOUND)
    ELSE LET cover == manga.cover.v
         IN  IF cover.kind = "File"
             THEN IF fsio \in {"open", "read"} THEN Err(Other)
                  ELSE Ok(ResponseNew(FileBody(cover.path)))
             ELSE MapErr(serve_page(accept_encoding, manga, cover.ch, cover.pg, fsio))

serve_lib(library, accept_encoding) == JsonBytesIntoResponse(library.json, accept_encoding)

serve_manga(accept_encoding, manga) == JsonBytesIntoResponse(manga.json, accept_encoding)

-----------------------------------------------------------------------------
(* The router *)

\* str::split('/'): the pieces between the separators, empty ones included
RECURSIVE SplitFrom(_, _)
SplitFrom(s, piece) ==
    IF s = <<>> THEN <<piece>>
    ELSE IF Head(s) = "/" THEN <<piece>> \o SplitFrom(Tail(s), <<>>)
    ELSE SplitFrom(Tail(s), Append(piece, Head(s)))

Split(s) == SplitFrom(s, <<>>)

COVER == <<"c", "o", "v", "e", "r">>

\* path.next() on what is left of the iterator
Next1(it) == IF it = <<>> THEN None ELSE Some(Head(it))
Rest(it) == IF it = <<>> THEN <<>> ELSE Tail(it)

\* Shared::route after the method check; calls lists the store lookups and
\* handlers it ran
RoutePath(library, request, fsio) ==
    LET accept_encoding == request.accept_encoding
        path == Tail(Split(request.path))
        seg1 == Next1(path)
        seg2 == Next1(Rest(path))
        seg3 == Next1(Rest(Rest(path)))
        seg4 == Next1(Rest(Rest(Rest(path))))
        manga == library.mangas[seg1.v]
        ch == ParseUsize(seg2.v)
        pg == ParseUsize(seg3.v)
        R(res, cs) == [res |-> res, calls |-> cs]
    IN  IF seg1 = None \/ seg1 = Some(<<>>)
             THEN R(serve_lib(library, accept_encoding), <<"serve_lib">>)
        ELSE IF seg1.v \notin DOMAIN library.mangas THEN R(Err(NOT_FOUND), <<"get">>)
        ELSE IF seg2 = None
             THEN R(serve_manga(accept_encoding, manga), <<"get", "serve_manga">>)
        ELSE IF seg2 = Some(COVER)
             THEN IF seg3 # None THEN R(Err(NOT_FOUND), <<"get">>)
                  ELSE R(serve_cover(accept_encoding, manga, fsio), <<"get", "serve_cover">>)
        ELSE IF ch = None THEN R(Err(NOT_FOUND), <<"get">>)
        ELSE IF seg3 = None THEN R(Err(NOT_FOUND), <<"get">>)
        ELSE IF pg = None THEN R(Err(NOT_FOUND), <<"get">>)
        ELSE IF seg4 # None THEN R(Err(NOT_FOUND), <<"get">>)
        ELSE R(serve_page(accept_encoding, manga, ch.v, pg.v, fsio), <<"get", "serve_page">>)

\* a router that forgets the method check
route_NoMethodCheck(library, request, fsio) == RoutePath(library, request, fsio)

\* Shared::route
route(library, request, fsio) ==
    IF request.method # "GET" THEN [res |-> Err(METHOD_NOT_ALLOWED), calls |-> <<>>]
    ELSE RoutePath(library, request, fsio)

Respond(r) ==
    [resp |-> IF r.res.ok THEN r.res.v ELSE ErrorIntoResponse(r.res.e), calls |-> r.calls]

\* Shared::serve
serve(library, request, fsio) == Respond(route(library, request, fsio))

-----------------------------------------------------------------------------
(* The file handle of a handler: the operations that succeeded on it, from  *)
(* its open to its drop when the handler returns.                            *)

\* fs::read: the file is opened, read and closed inside the call
FsReadFiles(fsio) ==
    IF fsio = "open" THEN <<>>
    ELSE IF fsio = "read" THEN <<"open", "close">>
    ELSE <<"open", "read", "close">>

\* a handler that keeps the file open when it answers 406
ZipFiles_LeakOnError(accept_encoding, page, fsio) ==
    IF fsio = "open" THEN <<>>
    ELSE IF fsio = "seek" THEN <<"open", "close">>
    ELSE IF page.method = Deflate /\ accept_encoding # None /\ ~ToStr(accept_encoding.v).ok
         THEN <<"open", "seek">>
    ELSE IF page.method \notin {Store, Deflate} \/ fsio = "read"
         THEN <<"open", "seek", "close">>
    ELSE <<"open", "seek", "read", "close">>

\* the Pages::Zip arm: file lives until the arm returns, by ? or at its end
ZipFiles(accept_encoding, page, fsio) ==
    IF fsio = "open" THEN <<>>
    ELSE IF fsio = "seek" THEN <<"open", "close">>
    ELSE IF \/ page.method \notin {Store, Deflate}
            \/ fsio = "read"
            \/ page.method = Deflate /\ accept_encoding # None /\ ~ToStr(accept_encoding.v).ok
         THEN <<"open", "seek", "close">>
    ELSE <<"open", "seek", "read", "close">>

\* serve_page
PageFiles(accept_encoding, manga, ch, pg, fsio) ==
    IF ch >= Len(manga.chapters) THEN <<>>
    ELSE IF pg >= PagesLen(manga.chapters[ch + 1].pages) THEN <<>>
    ELSE IF manga.chapters[ch + 1].pages.kind = "Filesystem" THEN FsReadFiles(fsio)
    ELSE ZipFiles(accept_encoding, manga.chapters[ch + 1].pages.pages[pg + 1], fsio)

\* serve_cover
CoverFiles(accept_encoding, manga, fsio) ==
    IF manga.cover = None THEN <<>>
    ELSE IF manga.cover.v.kind = "File" THEN FsReadFiles(fsio)
    ELSE PageFiles(accept_encoding, manga, manga.cover.v.ch, manga.cover.v.pg, fsio)

\* the handle operations of the handler route ran (cs: route's calls)
HandlerFiles(library, request, cs, fsio) ==
    LET path == Tail(Split(request.path))
    IN  IF cs = <<"get", "serve_page">>
        THEN PageFiles(request.accept_encoding, library.mangas[path[1]],
                       ParseUsize(path[2]).v, ParseUsize(path[3]).v, fsio)
        ELSE IF cs = <<"get", "serve_cover">>
        THEN CoverFiles(request.accept_encoding, library.mangas[path[1]], fsio)
        ELSE <<>>

-----------------------------------------------------------------------------
(* Requests *)

Methods == {"GET", "POST"}

AcceptEncodings ==
    {None, Some(GZIP), Some(DEFLATE), Some(IDENTITY), Some(GZIP \o DEFLATE \o <<NonAscii>>)}

\* the segments a request path is made of, by position
SegmentsAt(i) ==
    CASE i = 1 -> {<<>>, <<"a">>, <<"b">>}
      [] i = 2 -> {<<>>, COVER, <<"0">>, <<"1">>, <<"b">>}
      [] i = 3 -> {<<>>, <<"0">>, <<"1">>, <<"2">>, <<"+", "1">>}
      [] OTHER -> {<<>>, <<"0">>}

Segments == UNION {SegmentsAt(i) : i \in 1..4}

SegmentLists ==
    UNION {{segs \in [1..n -> Segments] : \A i \in 1..n : segs[i] \in SegmentsAt(i)} :
              n \in 1..MaxSegs}

\* the path of a request line: each segment after a '/'
RECURSIVE PathOf(_)
PathOf(segs) == IF segs = <<>> THEN <<>> ELSE <<"/">> \o Head(segs) \o PathOf(Tail(segs))

Request(method, path, accept_encoding) ==
    [method |-> method, path |-> path, accept_encoding |-> accept_encoding]

\* a request arrives and Shared::serve answers it; a file operation fails
\* only where the handler performs one
Serve ==
    /\ pc = "serve"
    /\ srv.phase \in {"listening", "draining"}
    /\ req = NoReq
    /\ \E method \in Methods, segs \in SegmentLists, ae \in AcceptEncodings, fsio \in FsOutcomes :
        \E request \in {Request(method, PathOf(segs), ae)} :
        \E served \in {serve(lib, request, fsio)} :
            /\ fsio = "ok" \/ served # serve(lib, request, "ok")
            /\ req' = request
            /\ io' = fsio
            /\ resp' = served.resp
            /\ calls' = served.calls
            /\ fds' = HandlerFiles(lib, request, served.calls, fsio)
    /\ UNCHANGED <<pc, walk, lib_buf, mangas, visited, loaded, lib, srv, chap>>

\* the response is sent and the request dropped
Done ==
    /\ pc = "serve"
    /\ req # NoReq
    /\ req' = NoReq
    /\ resp' = NoResp
    /\ calls' = <<>>
    /\ io' = "ok"
    /\ fds' = <<>>
    /\ UNCHANGED <<pc, walk, lib_buf, mangas, visited, loaded, lib, srv, chap>>


\* the loader alone, up to the hand-over of the library
NextLoad == LoadDir \/ LoadWalkError \/ LoadFinish

SpecLoad == Init /\ [][NextLoad]_vars

-----------------------------------------------------------------------------
(* The server on a loaded library.  The libraries are those load_library   *)
(* builds from these directory trees.                                       *)

At(dir, desc) == [dir |-> dir, desc |-> desc]
Absent == [state |-> "absent"]
Malformed == [state |-> "malformed"]

Layouts ==
    {<<At(<<>>, Absent)>>,
     <<At(<<>>, WorkB)>>,
     <<At(<<>>, Absent), At(<<<<0>>>>, WorkA), At(<<<<1>>>>, WorkB)>>,
     <<At(<<>>, Absent), At(<<<<0>>>>, WorkA), At(<<<<1>>>>, WorkA2)>>,
     <<At(<<>>, Absent), At(<<<<0>>>>, WorkA2), At(<<<<1>>>>, WorkA)>>,
     <<At(<<>>, Absent), At(<<<<0>>>>, WorkAB), At(<<<<1>>>>, WorkA)>>,
     <<At(<<>>, Absent), At(<<<<0>>>>, Malformed), At(<<<<1>>>>, WorkB), At(<<<<2>>>>, WorkAB)>>,
     <<At(<<>>, Absent), At(<<<<0>>>>, Absent), At(<<<<0>>, <<0>>>>, WorkA), At(<<<<1>>>>, WorkRar)>>,
     <<At(<<>>, Absent), At(<<<<0>>>>, WorkA), At(<<<<1>>>>, WorkB), At(<<<<2>>>>, WorkAB)>>}

InitServe ==
    /\ pc = "serve"
    /\ walk = [cur |-> NoDir, skip |-> FALSE, n |-> 0]
    /\ lib_buf = <<>>
    /\ mangas = EmptyMap
    /\ visited = <<>>
    /\ \E layout \in Layouts, gzipDelta \in GzipDeltas :
        \E l \in {load_library(layout, gzipDelta)} :
            l.legal /\ lib = l.lib /\ loaded = l.loaded
    /\ req = NoReq
    /\ resp = NoResp
    /\ calls = <<>>
    /\ io = "ok"
    /\ fds = <<>>
    /\ srv = [NoServer EXCEPT !.phase = "listening"]
    /\ chap = NoChapter

NextServe == Serve \/ Done

SpecServe == InitServe /\ [][NextServe]_vars

-----------------------------------------------------------------------------
(* Properties *)

Serving == pc = "serve" /\ req # NoReq

\* the segments of the request path after the leading '/'
ReqSegs == Tail(Split(req.path))

\* one or more digits
IsDecimal(s) == s # <<>> /\ \A i \in 1..Len(s) : IsDigit(s[i])

\* an Accept-Encoding header that is present and does not decode
Undecodable(ae) == ae # None /\ \E i \in 1..Len(ae.v) : ae.v[i] = NonAscii

\* a response of that status with no body and no header
EmptyResponse(code) ==
    resp = [status |-> code, body |-> EmptyBody, content_type |-> None,
            content_encoding |-> None]

\* GET /<workid>/<ch>/<pg> for a loaded work and two decimal indices
PageRequest ==
    /\ Serving
    /\ req.method = "GET"
    /\ Len(ReqSegs) = 3
    /\ ReqSegs[1] \in DOMAIN lib.mangas
    /\ IsDecimal(ReqSegs[2])
    /\ IsDecimal(ReqSegs[3])

ReqManga == lib.mangas[ReqSegs[1]]
ReqCh == DecValue(ReqSegs[2], 0)
ReqPg == DecValue(ReqSegs[3], 0)
ReqPages == ReqManga.chapters[ReqCh + 1].pages
ReqEntry == ReqPages.pages[ReqPg + 1]

InRange == ReqCh < Len(ReqManga.chapters) /\ ReqPg < PagesLen(ReqPages)

\* the page can be delivered: the file operations succeed, an archive entry
\* is stored or deflated, and the header decodes where a deflated entry
\* makes the handler read it
PageDeliverable ==
    /\ io = "ok"
    /\ ReqPages.kind = "Zip" =>
          /\ ReqEntry.method \in {Store, Deflate}
          /\ ReqEntry.method = Deflate => ~Undecodable(req.accept_encoding)

C2_MethodNotAllowed ==
    (Serving /\ req.method # "GET") => EmptyResponse(405) /\ calls = <<>>

\* a POST to a loaded work's page with an undecodable header, answered 405
C2_Witness ==
    /\ Serving
    /\ req.method = "POST"
    /\ Len(ReqSegs) = 3
    /\ ReqSegs[1] \in DOMAIN lib.mangas
    /\ Undecodable(req.accept_encoding)
    /\ resp.status = 405

\* a GET whose path the grammar does not admit: segments after the page or
\* after "cover", a first segment that is no loaded work-id (the path "/",
\* the listing, apart), or a chapter or page segment that is not decimal
RoutingMiss ==
    \/ Len(ReqSegs) > 3
    \/ Len(ReqSegs) = 3 /\ ReqSegs[2] = COVER
    \/ req.path # <<"/">> /\ ReqSegs[1] \notin DOMAIN lib.mangas
    \/ Len(ReqSegs) >= 2 /\ ReqSegs[2] # COVER /\ ~IsDecimal(ReqSegs[2])
    \/ Len(ReqSegs) >= 3 /\ ~IsDecimal(ReqSegs[3])

\* C3 as stated: every GET that is a routing-level miss is answered 404 with
\* an empty body.
C3_AsStated == (Serving /\ req.method = "GET" /\ RoutingMiss) => EmptyResponse(404)

\* the start of the listing's object for the work id: {"id":"<id>","title":
EntryPrefix(id) == <<"{", "\"", "i", "d", "\"", ":">> \o JsonString(id) \o <<",", "\"", "t", "i", "t", "l", "e", "\"", ":">>

\* the library listing has an entry for id
Listed(id) == Contains(lib.json.raw, EntryPrefix(id))

\* the ids the descriptors on disk carry
DescriptorIds == {d.id.v : d \in {x \in Descriptors : x.state = "ok" /\ x.id # None}}

\* C4 as stated, for the plainest request (no Accept-Encoding header): a work
\* with an entry in the library listing is served 200 at GET /<id>.
C4_AsStated ==
    \A id \in DescriptorIds :
        (Serving /\ Listed(id) /\ req.method = "GET" /\ req.path = <<"/">> \o id
            /\ req.accept_encoding = None)
        => resp.status = 200

\* what became of a directory that is a work which failed to load, or of an
\* entry the walk could not read
FailedOutcomes == {"open", "read", "parse", "chapter", "serialize", "walk"}

\* the listing buffer and the work map that the works of ws alone produce
RECURSIVE ListingOf(_)
ListingOf(ws) ==
    IF ws = <<>> THEN <<"[">>
    ELSE ListingOf(SubSeq(ws, 1, Len(ws) - 1))
            \o LibraryEntrySer(ws[Len(ws)].manga) \o <<",">>

RECURSIVE MapOf(_)
MapOf(ws) ==
    IF ws = <<>> THEN EmptyMap
    ELSE HashMapInsert(MapOf(SubSeq(ws, 1, Len(ws) - 1)),
                       ws[Len(ws)].manga.id, ws[Len(ws)].entry)

\* a step of the loader's loop: one more directory entry was handled
LoaderStep == pc = "load" /\ Len(visited') = Len(visited) + 1

\* C5: an iteration on a work that fails (descriptor unreadable or malformed,
\* a chapter unresolvable, serialization failure) leaves the listing buffer
\* at its length before the entry and the work map as it was, and the scan
\* goes on; after every iteration the buffer and the map are exactly what the
\* successfully loaded works alone produce.
C5_FailedWorkContributesNothing ==
    [][LoaderStep =>
        /\ lib_buf' = ListingOf(loaded')
        /\ mangas' = MapOf(loaded')
        /\ visited'[Len(visited')].outcome \in FailedOutcomes =>
            /\ lib_buf' = lib_buf
            /\ mangas' = mangas
            /\ loaded' = loaded
            /\ pc' = "load"]_vars

\* below the root a work loaded, then a work failed at serialization, after
\* its listing entry was written, then a sibling loaded
C5_Witness ==
    /\ pc = "load"
    /\ Len(visited) = 4
    /\ visited[2].outcome = "loaded"
    /\ visited[3].outcome = "serialize"
    /\ visited[4].outcome = "loaded"
    /\ Len(loaded) = 2

\* a GET for the library listing (/) or for the metadata of a loaded work
JsonEndpoint ==
    /\ Serving /\ req.method = "GET"
    /\ \/ req.path = <<"/">>
       \/ Len(ReqSegs) = 1 /\ ReqSegs[1] \in DOMAIN lib.mangas

\* the pre-encoded payload that endpoint serves
ReqPayload == IF req.path = <<"/">> THEN lib.json ELSE lib.mangas[ReqSegs[1]].json

JsonResponse(body, enc) ==
    resp = [status |-> 200, body |-> body,
            content_type |-> Some("application/json"), content_encoding |-> enc]

\* C6: the listing and the work-metadata endpoints answer by the
\* Accept-Encoding header and the payload alone: 406 for a header that is
\* present and undecodable; else the gzip body with Content-Encoding gzip
\* when the payload has a gzip alternative and the header contains "gzip";
\* else the raw body without Content-Encoding; every 200 carries
\* Content-Type application/json.
C6_JsonNegotiation ==
    JsonEndpoint =>
        IF Undecodable(req.accept_encoding) THEN EmptyResponse(406)
        ELSE IF /\ ReqPayload.gzip # None
                /\ req.accept_encoding # None
                /\ Contains(req.accept_encoding.v, GZIP)
             THEN JsonResponse(ReqPayload.gzip.v, Some("gzip"))
             ELSE JsonResponse(JsonBody(ReqPayload.raw), None)

\* the metadata of a work served in its gzip alternative
C6_Witness ==
    /\ JsonEndpoint /\ req.path # <<"/">>
    /\ resp.status = 200
    /\ resp.content_encoding = Some("gzip")
    /\ resp.body = ReqPayload.gzip.v

\* C7 as stated: a page request with valid indices and an Accept-Encoding
\* header that is present but undecodable is answered 406 with an empty
\* body, whether the page is a loose file or a stored or deflated archive
\* entry (file operations succeeding).
C7_AsStated ==
    (/\ PageRequest /\ InRange
     /\ Undecodable(req.accept_encoding)
     /\ io = "ok"
     /\ ReqPages.kind = "Zip" => ReqEntry.method \in {Store, Deflate})
    => EmptyResponse(406)

\* a GET for the cover of a loaded work
CoverRequest ==
    /\ Serving /\ req.method = "GET"
    /\ Len(ReqSegs) = 2
    /\ ReqSegs[1] \in DOMAIN lib.mangas
    /\ ReqSegs[2] = COVER

\* the response to GET /<workid>/<ch>/<pg> for the work of the request, with
\* the headers of the request and the same file system behaviour
PageResponse(ch, pg) ==
    serve(lib, Request("GET", PathOf(<<ReqSegs[1], ToDec(ch), ToDec(pg)>>),
                       req.accept_encoding), io).resp

SameResponse(r) ==
    /\ resp.status = r.status
    /\ resp.content_encoding = r.content_encoding
    /\ resp.body = r.body

Payloads ==
    {mangas[id].json : id \in DOMAIN mangas}
        \cup {lib.mangas[id].json : id \in DOMAIN lib.mangas}
        \cup (IF lib.json = None THEN {} ELSE {lib.json})

\* C9: a payload has a gzip alternative only if its raw body is longer than
\* 64 bytes and the gzip body is strictly shorter than the raw body.
C9_GzipOnlyIfSmaller ==
    \A p \in Payloads :
        p.gzip # None => Len(p.raw) > 64 /\ BodyLen(p.gzip.v) < Len(p.raw)

\* a finished store whose listing is exactly 64 bytes long, so without gzip
\* alternative, with a work of more than 64 bytes that kept its alternative
C9_Witness ==
    /\ pc = "serve"
    /\ Len(lib.json.raw) = 64
    /\ lib.json.gzip = None
    /\ \E id \in DOMAIN lib.mangas :
          Len(lib.mangas[id].json.raw) > 64 /\ lib.mangas[id].json.gzip # None

\* s starts with p
StartsWith(s, p) == Len(s) >= Len(p) /\ SubSeq(s, 1, Len(p)) = p

\* the number of entries for id in a listing
RECURSIVE ListingCount(_, _)
ListingCount(raw, id) ==
    IF raw = <<>> THEN 0
    ELSE (IF StartsWith(raw, EntryPrefix(id)) THEN 1 ELSE 0) + ListingCount(Tail(raw), id)

\* C10 as stated: when two work directories that loaded successfully share
\* an id, the finished store holds one work for that id: one entry in the
\* library listing and one in the work map.
C10_AsStated ==
    pc = "serve" =>
        \A i, j \in 1..Len(loaded) :
            (i < j /\ loaded[i].manga.id = loaded[j].manga.id) =>
                /\ loaded[i].manga.id \in DOMAIN lib.mangas
                /\ ListingCount(lib.json.raw, loaded[i].manga.id) = 1

\* C11 as stated: no work with an empty id is ever in the work map or in the
\* library listing (a descriptor whose id is missing or empty is rejected
\* when it is parsed).
C11_AsStated ==
    /\ <<>> \notin DOMAIN mangas
    /\ <<>> \notin DOMAIN lib.mangas
    /\ ~Contains(lib_buf, EntryPrefix(<<>>))
    /\ lib.json # None => ~Listed(<<>>)

\* p is a proper ancestor of the directory d
IsAncestor(p, d) == Len(p) < Len(d) /\ SubSeq(d, 1, Len(p)) = p

\* C12 as stated: every visited directory that holds a file named info.toml
\* (which opens and parses) becomes a work root and nothing below it is
\* visited; a directory without descriptor file is open to descent.
C12_AsStated ==
    pc = "load" =>
        \A i \in 1..Len(visited) :
            IF visited[i].file = INFO_TOML
            THEN /\ visited[i].outcome = "loaded"
                 /\ \A j \in 1..Len(visited) : ~IsAncestor(visited[i].dir, visited[j].dir)
                 /\ i = Len(visited) => walk.skip
            ELSE (i = Len(visited) /\ visited[i].dir # NoDir /\ visited[i].file = "none")
                    => ~walk.skip

\* the handles open after the operations ops
RECURSIVE OpenHandles(_)
OpenHandles(ops) ==
    IF ops = <<>> THEN 0
    ELSE OpenHandles(SubSeq(ops, 1, Len(ops) - 1))
            + (CASE ops[Len(ops)] = "open" -> 1 [] ops[Len(ops)] = "close" -> -1 [] OTHER -> 0)

InFlight == IF req = NoReq THEN 0 ELSE 1

\* C13: at every moment of a handler the number of open page or cover
\* handles is at most the number of requests in flight, every handle is
\* closed when the response is produced, whatever the exit path, and no
\* handle is open when no request is in flight.
C13_HandlesClosed ==
    /\ \A k \in 0..Len(fds) : OpenHandles(SubSeq(fds, 1, k)) \in 0..InFlight
    /\ OpenHandles(fds) = 0
    /\ req = NoReq => fds = <<>>

\* a 406 raised after the archive was opened and seeked
C13_Witness ==
    /\ Serving
    /\ resp.status = 406
    /\ fds = <<"open", "seek", "close">>

-----------------------------------------------------------------------------
(* The server's life (run_server): the listener, the connections being      *)
(* served and the shutdown signal.  A connection is in flight from its       *)
(* accept to the end of its handler.                                         *)

InFlightConns == srv.accepted - srv.finished

\* TcpListener::bind succeeds and hyper starts serving
Bind ==
    /\ pc = "serve" /\ srv.phase = "binding"
    /\ srv' = [srv EXCEPT !.phase = "listening"]
    /\ UNCHANGED <<pc, walk, lib_buf, mangas, visited, loaded, lib, req, resp, calls, io, fds, chap>>

\* TcpListener::bind fails: run_server returns the error
BindFail ==
    /\ pc = "serve" /\ srv.phase = "binding"
    /\ srv' = [srv EXCEPT !.phase = "failed"]
    /\ UNCHANGED <<pc, walk, lib_buf, mangas, visited, loaded, lib, req, resp, calls, io, fds, chap>>

\* the listener accepts a connection
Accept ==
    /\ srv.phase = "listening"
    /\ srv.accepted < MaxConns
    /\ srv' = [srv EXCEPT !.accepted = srv.accepted + 1]
    /\ UNCHANGED <<pc, walk, lib_buf, mangas, visited, loaded, lib, req, resp, calls, io, fds, chap>>

\* the handler of a connection in flight finishes
Finish ==
    /\ srv.phase \in {"listening", "draining"}
    /\ InFlightConns > 0
    /\ srv' = [srv EXCEPT !.finished = srv.finished + 1]
    /\ UNCHANGED <<pc, walk, lib_buf, mangas, visited, loaded, lib, req, resp, calls, io, fds, chap>>

\* the interrupt signal arrives: ctrl_c() resolves and the graceful shutdown
\* begins
Interrupt ==
    /\ srv.phase = "listening"
    /\ srv' = [srv EXCEPT !.phase = "draining", !.sigint = TRUE]
    /\ UNCHANGED <<pc, walk, lib_buf, mangas, visited, loaded, lib, req, resp, calls, io, fds, chap>>

\* ctrl_c() resolves to an error: unwrap_or_else(|_| ()) completes the
\* shutdown future all the same
SignalError ==
    /\ srv.phase = "listening"
    /\ srv' = [srv EXCEPT !.phase = "draining"]
    /\ UNCHANGED <<pc, walk, lib_buf, mangas, visited, loaded, lib, req, resp, calls, io, fds, chap>>

\* the listener is closed and no connection is left: serve returns
Return ==
    /\ srv.phase = "draining"
    /\ InFlightConns = 0
    /\ srv' = [srv EXCEPT !.phase = "returned"]
    /\ UNCHANGED <<pc, walk, lib_buf, mangas, visited, loaded, lib, req, resp, calls, io, fds, chap>>

\* the server over an empty library
InitLife ==
    /\ pc = "serve"
    /\ walk = [cur |-> NoDir, skip |-> FALSE, n |-> 0]
    /\ lib_buf = <<>>
    /\ mangas = EmptyMap
    /\ visited = <<>>
    /\ loaded = <<>>
    /\ lib = load_library(<<At(<<>>, Absent)>>, 0).lib
    /\ req = NoReq
    /\ resp = NoResp
    /\ calls = <<>>
    /\ io = "ok"
    /\ fds = <<>>
    /\ srv = NoServer
    /\ chap = NoChapter

Next ==
    \/ LoadDir \/ LoadWalkError \/ LoadFinish
    \/ Bind \/ BindFail \/ Accept \/ Finish \/ Interrupt \/ SignalError \/ Return
    \/ Serve \/ Done

\* the program: the library is loaded, then served
Spec == Init /\ [][Next]_vars

NextLife == Bind \/ BindFail \/ Accept \/ Finish \/ Interrupt \/ SignalError \/ Return

\* handlers run to their end and the serve future is polled
SpecLife ==
    /\ InitLife /\ [][NextLife]_vars
    /\ WF_vars(Finish) /\ WF_vars(Return)

\* C14 as stated: the server accepts connections until an interrupt signal
\* is received; from then on no connection is accepted, the requests in
\* flight finish, and only then does serve return.
C14_AsStated ==
    /\ [](srv.phase \in {"draining", "returned"} => srv.sigint)
    /\ [][srv.phase \in {"draining", "returned"} => srv'.accepted = srv.accepted]_vars
    /\ [](srv.phase = "returned" => InFlightConns = 0)
    /\ [](srv.phase = "draining" => <>(srv.phase = "returned"))

-----------------------------------------------------------------------------
(* The page table of one chapter (load_pages_dir, load_pages_zip) over the  *)
(* directories and archives of up to MaxEntries entries.                     *)

Names == {<<1>>, <<1, 0>>, <<2>>}

\* the directories read_dir may yield: names are distinct
DirChapters ==
    UNION {{OnDiskDir([i \in 1..n |-> DirEntry(e[i][1], e[i][2])]) :
              e \in {x \in [1..n -> Names \X BOOLEAN] :
                        \A i, j \in 1..n : i # j => x[i][1] # x[j][1]}} :
           n \in 0..MaxEntries}

\* the central directories of an archive: entry i has its data at offset i
ZipChapters ==
    UNION {{OnDiskFile("zip", [i \in 1..n |-> ZipEntry(e[i][1], e[i][2], Store, i, 1, 1)]) :
              e \in [1..n -> Names \X BOOLEAN]} :
           n \in 0..MaxEntries}

ChapterPath == <<<<0>>, <<1>>>>

InitSort ==
    /\ pc = "load"
    /\ walk = [cur |-> NoDir, skip |-> FALSE, n |-> 0]
    /\ lib_buf = <<"[">>
    /\ mangas = EmptyMap
    /\ visited = <<>>
    /\ loaded = <<>>
    /\ lib = NoLib
    /\ req = NoReq
    /\ resp = NoResp
    /\ calls = <<>>
    /\ io = "ok"
    /\ fds = <<>>
    /\ srv = NoServer
    /\ \E at \in DirChapters \cup ZipChapters : chap = [at |-> Some(at), pages |-> None]

\* load_pages_dir on the chapter
LoadPagesDir ==
    /\ chap.at # None /\ chap.pages = None
    /\ chap.at.v.kind = "dir"
    /\ \E files \in SortUnstable(SelectSeq(chap.at.v.entries, IsFileEntry)) :
          chap' = [chap EXCEPT !.pages = Some(PagesOfDir(ChapterPath, files).v)]
    /\ UNCHANGED <<pc, walk, lib_buf, mangas, visited, loaded, lib, req, resp, calls, io, fds, srv>>

\* load_pages_zip on the chapter
LoadPagesZip ==
    /\ chap.at # None /\ chap.pages = None
    /\ chap.at.v.kind = "file"
    /\ \E entries \in SortUnstable(SelectSeq(chap.at.v.entries, IsFileEntry)) :
          chap' = [chap EXCEPT !.pages = Some(PagesOfZip(ChapterPath, entries).v)]
    /\ UNCHANGED <<pc, walk, lib_buf, mangas, visited, loaded, lib, req, resp, calls, io, fds, srv>>

NextSort == LoadPagesDir \/ LoadPagesZip

SpecSort == InitSort /\ [][NextSort]_vars

\* the regular files of the chapter, as yielded, and its page table
FileEntries == SelectSeq(chap.at.v.entries, IsFileEntry)
PageTable == chap.pages.v.pages

\* what the page table holds for the entry e
PageOfEntry(e) ==
    IF chap.at.v.kind = "dir" THEN Append(ChapterPath, e.name) ELSE MiniZipEntry(e)

\* the number of files of the chapter with a name below, and not above, e's
Smaller(e) ==
    Cardinality({i \in 1..Len(FileEntries) : BytesLess(FileEntries[i].name, e.name)})
NotGreater(e) ==
    Cardinality({i \in 1..Len(FileEntries) : ~BytesLess(e.name, FileEntries[i].name)})

\* C15 as stated: the page table of a loaded chapter holds exactly the
\* regular files, strictly ascending by name in byte order: the file with i
\* smaller names is page i.
C15_AsStated ==
    chap.pages # None =>
        /\ Len(PageTable) = Len(FileEntries)
        /\ \A k \in 1..Len(FileEntries) :
              /\ NotGreater(FileEntries[k]) = Smaller(FileEntries[k]) + 1
              /\ PageTable[Smaller(FileEntries[k]) + 1] = PageOfEntry(FileEntries[k])

\* C15: the page table of a loaded chapter holds exactly the regular files
\* in ascending order of their names in byte order, whatever the order they
\* were yielded in: a file with s smaller names and t names not greater is a
\* page among the indices s..t-1; the names of a directory are distinct, so
\* its file with s smaller names is page s.
C15_PagesSorted ==
    chap.pages # None =>
        /\ Len(PageTable) = Len(FileEntries)
        /\ \A k \in 1..Len(FileEntries) :
              /\ \E i \in (Smaller(FileEntries[k]) + 1)..NotGreater(FileEntries[k]) :
                    PageTable[i] = PageOfEntry(FileEntries[k])
              /\ chap.at.v.kind = "dir" =>
                    PageTable[Smaller(FileEntries[k]) + 1] = PageOfEntry(FileEntries[k])

\* an archive that yields a directory entry and two files, the greater name
\* first, loaded
C15_Witness ==
    /\ chap.pages # None
    /\ chap.at.v.kind = "file"
    /\ Len(FileEntries) = 2
    /\ Len(chap.at.v.entries) = 3
    /\ BytesLess(FileEntries[2].name, FileEntries[1].name)
    /\ PageTable[1] = MiniZipEntry(FileEntries[2])

\* a GET for an in-range page of an archive chapter
ArchivePageRequest == PageRequest /\ InRange /\ ReqPages.kind = "Zip"

\* a 200 whose body is the entry's bytes: at most compressed_size bytes from
\* its data offset, inflated or not
EntryResponse(inflated, enc) ==
    resp = [status |-> 200,
            body |-> [kind |-> "zip", path |-> ReqPages.path,
                      offset |-> ReqEntry.data_offset,
                      len |-> ReqEntry.compressed_size, inflated |-> inflated],
            content_type |-> None, content_encoding |-> enc]

HeaderContains(word) ==
    req.accept_encoding # None /\ Contains(req.accept_encoding.v, word)

\* C16 as stated (file operations succeeding): Store -> the stored bytes, no
\* Content-Encoding, whatever the header; Deflate with a header containing
\* "deflate" -> the compressed bytes with Content-Encoding deflate; Deflate
\* otherwise -> the inflated bytes; any other method -> an empty 500.
C16_AsStated ==
    (ArchivePageRequest /\ io = "ok") =>
        CASE ReqEntry.method = Store -> EntryResponse(FALSE, None)
          [] ReqEntry.method = Deflate ->
                IF HeaderContains(DEFLATE) THEN EntryResponse(FALSE, Some("deflate"))
                ELSE EntryResponse(TRUE, None)
          [] OTHER -> EmptyResponse(500)

\* C16: an in-range archive page is answered 500 when the archive cannot be
\* opened or seeked; else by the entry's method: Store -> the stored bytes
\* (500 if the read fails), whatever the header; Deflate -> 406 for an
\* undecodable header, else 500 if the read or the inflation fails, else the
\* compressed bytes with Content-Encoding deflate when the header contains
\* "deflate" and the inflated bytes without Content-Encoding otherwise; any
\* other method -> an empty 500.
C16_ArchiveDispatch ==
    ArchivePageRequest =>
        IF io \in {"open", "seek"} THEN EmptyResponse(500)
        ELSE CASE ReqEntry.method = Store ->
                    IF io = "read" THEN EmptyResponse(500)
                    ELSE EntryResponse(FALSE, None)
               [] ReqEntry.method = Deflate ->
                    IF Undecodable(req.accept_encoding) THEN EmptyResponse(406)
                    ELSE IF io = "read" THEN EmptyResponse(500)
                    ELSE IF HeaderContains(DEFLATE)
                         THEN EntryResponse(FALSE, Some("deflate"))
                         ELSE EntryResponse(TRUE, None)
               [] OTHER -> EmptyResponse(500)

\* a deflated entry passed through to a client that accepts deflate
C16_Witness ==
    /\ ArchivePageRequest
    /\ ReqEntry.method = Deflate
    /\ HeaderContains(DEFLATE)
    /\ resp.status = 200
    /\ resp.content_encoding = Some("deflate")

\* the {id,title} object of a loaded work
EntryObject(w) == EntryPrefix(w.manga.id) \o JsonString(w.manga.title) \o <<"}">>

\* the objects of the works ws, in order, with a comma between neighbours
RECURSIVE JoinEntries(_)
JoinEntries(ws) ==
    IF ws = <<>> THEN <<>>
    ELSE IF Len(ws) = 1 THEN EntryObject(ws[1])
    ELSE EntryObject(ws[1]) \o <<",">> \o JoinEntries(Tail(ws))

\* C17: after the scan the library-listing body is '[', the {id,title}
\* objects of the successfully loaded works in traversal order, separated by
\* single commas with none leading or trailing, and ']'; '[]' when no work
\* loaded.
C17_ListingBody ==
    pc = "serve" =>
        /\ lib.json.raw = <<"[">> \o JoinEntries(loaded) \o <<"]">>
        /\ loaded = <<>> => lib.json.raw = <<"[", "]">>

\* a finished scan of four directories of which two loaded
C17_Witness ==
    /\ pc = "serve"
    /\ Len(loaded) = 2
    /\ loaded[1].dir = <<<<0>>>>
    /\ loaded[2].dir = <<<<2>>>>

\* nothing below the i-th visited directory was visited, and right after its
\* visit the walker is set to skip its subtree
Pruned(i) ==
    /\ \A j \in 1..Len(visited) :
            visited[j].dir # NoDir => ~IsAncestor(visited[i].dir, visited[j].dir)
    /\ i = Len(visited) => walk.skip

\* C18 as stated: every visited directory that holds a descriptor file,
\* whether or not the work in it loaded, has its whole subtree skipped, so
\* no work below a failed work directory is loaded; only a directory without
\* descriptor file is open to descent.
C18_AsStated ==
    pc = "load" =>
        \A i \in 1..Len(visited) :
            visited[i].dir # NoDir =>
                IF visited[i].file # "none"
                THEN /\ Pruned(i)
                     /\ visited[i].outcome # "loaded" =>
                            \A k \in 1..Len(loaded) : ~IsAncestor(visited[i].dir, loaded[k].dir)
                ELSE i = Len(visited) => ~walk.skip

====
